---- MODULE Spec2Model ----
(***************************************************************************)
(* Model of the claude-nexus implementation registry                       *)
(* (nexus/core/registry.py) and tool selector (nexus/core/selector.py).    *)
(*                                                                         *)
(* The registry is a Python dict from interface to a list of               *)
(* Implementation records; a dict keeps its keys in insertion order, so    *)
(* it is modelled as a sequence of entries [key, value].  Every public     *)
(* method of ImplementationRegistry and ToolSelector is one action; the    *)
(* variable `last` records the most recent call, its arguments and what    *)
(* it returned or raised.                                                  *)
(***************************************************************************)
EXTENDS Integers, Sequences, FiniteSets, TLC

\* ------------------------------------------------------------------------
\* Bounds and input domains
\* ------------------------------------------------------------------------

\* Number of register calls in one behaviour.
MaxRegs == 2

\* Interface protocol classes used as registry keys.
Interfaces == {"CodeHost", "IssueTracker"}

\* Implementation classes handed to register (their __name__).
Classes == {"MockGitLabCLI"}

\* Python's None for an optional string argument.
NoneName == "<None>"

\* Names handed to register: omitted (None) or an explicit name.
RegisterNames == {NoneName, "gitlab-cli"}

\* Names handed to the lookups: one that register is given and one that
\* never is registered.
LookupNames == {"gitlab-cli", "nonexistent"}

\* Capability lists handed to register.
CapabilityLists == {<<"BASIC_READ">>, <<"BASIC_READ", "ADVANCED_SEARCH">>}

\* Priorities handed to register.
Priorities == {0, 1}

\* Default of register's priority parameter.
DefaultPriority == 0

\* priority arguments of register: omitted, or one of Priorities.
PriorityArgs ==
    {[given |-> FALSE, value |-> DefaultPriority]}
    \cup {[given |-> TRUE, value |-> p] : p \in Priorities}

\* priority arguments with one more value.
MorePriorities == Priorities \cup {2}

MorePriorityArgs ==
    {[given |-> FALSE, value |-> DefaultPriority]}
    \cup {[given |-> TRUE, value |-> p] : p \in MorePriorities}

\* The value bound to the priority parameter.
PriorityOf(arg) == IF arg.given THEN arg.value ELSE DefaultPriority

\* Python's None for the optional list argument required_capabilities,
\* and a list that was given.
NoneCaps == [given |-> FALSE, caps |-> <<>>]

Given(caps) == [given |-> TRUE, caps |-> caps]

\* required_capabilities arguments of get_tool.
RequiredArgs ==
    {NoneCaps, Given(<<>>), Given(<<"ADVANCED_SEARCH">>),
     Given(<<"BASIC_READ", "ADVANCED_SEARCH">>)}

\* required_capabilities arguments of get_implementations_with_capabilities.
RequiredLists == {<<>>, <<"ADVANCED_SEARCH">>, <<"BASIC_READ", "ADVANCED_SEARCH">>}

\* ------------------------------------------------------------------------
\* State
\* ------------------------------------------------------------------------

VARIABLES
    implementations,  \* ImplementationRegistry._implementations
    regCount,         \* number of register calls so far
    last,             \* the most recent registry or selector call
    history,          \* records built by register since __init__ or clear
    environment,      \* what git and the file system answer to Configuration
    config,           \* Configuration._config
    mergeArgs,        \* base and override of a direct _deep_merge call
    cfgLast           \* the most recent Configuration call and its outcome

regVars == <<implementations, regCount, last, history>>

cfgVars == <<environment, config, mergeArgs, cfgLast>>

vars == <<implementations, regCount, last, history,
          environment, config, mergeArgs, cfgLast>>

\* ------------------------------------------------------------------------
\* Python helpers
\* ------------------------------------------------------------------------

\* `cap in capabilities` on a list.
In(x, list) == \E i \in 1..Len(list) : list[i] = x

\* all(cap in impl.capabilities for cap in required_capabilities)
HasAll(impl, required) ==
    \A i \in 1..Len(required) : In(required[i], impl.capabilities)

\* Truth value of an optional string: None and "" are falsy.
TruthyName(name) == name # NoneName /\ name # ""

\* Truth value of an optional list: None and [] are falsy.
TruthyCaps(required) == required.given /\ Len(required.caps) > 0

\* list.sort(key=lambda x: x.priority, reverse=True): a stable sort into
\* non-increasing priority.  Place one record behind every record whose
\* priority is greater than or equal to its own.
RECURSIVE InsertBeforeEqual(_, _)
InsertBeforeEqual(sorted, impl) ==
    IF sorted = <<>> THEN <<impl>>
    ELSE IF Head(sorted).priority > impl.priority
         THEN <<Head(sorted)>> \o InsertBeforeEqual(Tail(sorted), impl)
         ELSE <<impl>> \o sorted

RECURSIVE InsertByPriority(_, _)
InsertByPriority(sorted, impl) ==
    IF sorted = <<>> THEN <<impl>>
    ELSE IF Head(sorted).priority >= impl.priority
         THEN <<Head(sorted)>> \o InsertByPriority(Tail(sorted), impl)
         ELSE <<impl>> \o sorted

\* A register that leaves the list in registration order.
KeepRegistrationOrder(list) == list

RECURSIVE SortByPriority(_)
SortByPriority(list) ==
    IF list = <<>> THEN <<>>
    ELSE InsertByPriority(SortByPriority(SubSeq(list, 1, Len(list) - 1)),
                          list[Len(list)])

\* ------------------------------------------------------------------------
\* The dict _implementations
\* ------------------------------------------------------------------------

\* `interface in self._implementations`
HasKey(dict, interface) == \E i \in 1..Len(dict) : dict[i].key = interface

KeyIndex(dict, interface) ==
    CHOOSE i \in 1..Len(dict) : dict[i].key = interface

\* ImplementationRegistry.get_implementations
get_implementations(dict, interface) ==
    IF HasKey(dict, interface) THEN dict[KeyIndex(dict, interface)].value
    ELSE <<>>

\* ImplementationRegistry.list_interfaces
list_interfaces(dict) == [i \in 1..Len(dict) |-> dict[i].key]

\* Implementation(...) as built by register; id is the identity of the
\* new object (the number of the register call that made it).
Implementation(interface, implementation, capabilities, priority, name, id) ==
    [interface |-> interface,
     implementation |-> implementation,
     capabilities |-> capabilities,
     priority |-> priority,
     name |-> IF TruthyName(name) THEN name ELSE implementation,
     id |-> id]

\* A register that replaces a record of the same name.
RegisteredReplacingName(dict, impl) ==
    LET withKey == IF HasKey(dict, impl.interface) THEN dict
                   ELSE Append(dict, [key |-> impl.interface, value |-> <<>>])
        k == KeyIndex(withKey, impl.interface)
        OtherName(r) == r.name # impl.name
    IN [withKey EXCEPT
            ![k].value = SortByPriority(Append(SelectSeq(@, OtherName), impl))]

\* A register that appends the record to every bucket of the dict.
RegisteredInEveryBucket(dict, impl) ==
    LET withKey == IF HasKey(dict, impl.interface) THEN dict
                   ELSE Append(dict, [key |-> impl.interface, value |-> <<>>])
    IN [i \in 1..Len(withKey) |->
            [key |-> withKey[i].key,
             value |-> SortByPriority(Append(withKey[i].value, impl))]]

\* The dict after ImplementationRegistry.register.
Registered(dict, impl) ==
    LET withKey == IF HasKey(dict, impl.interface) THEN dict
                   ELSE Append(dict, [key |-> impl.interface, value |-> <<>>])
        k == KeyIndex(withKey, impl.interface)
    IN [withKey EXCEPT ![k].value = SortByPriority(Append(@, impl))]

\* Python's None for an optional Implementation.
NoneImpl == <<>>

RECURSIVE LastNamed(_, _)
LastNamed(list, name) ==
    IF list = <<>> THEN NoneImpl
    ELSE IF list[Len(list)].name = name THEN <<list[Len(list)]>>
         ELSE LastNamed(SubSeq(list, 1, Len(list) - 1), name)

\* ImplementationRegistry.get_implementation_by_name: <<impl>> or None.
RECURSIVE FirstNamed(_, _)
FirstNamed(list, name) ==
    IF list = <<>> THEN NoneImpl
    ELSE IF Head(list).name = name THEN <<Head(list)>>
         ELSE FirstNamed(Tail(list), name)

get_implementation_by_name_latest(dict, interface, name) ==
    LET named == {r \in {get_implementations(dict, interface)[i] :
                          i \in 1..Len(get_implementations(dict, interface))} :
                     r.name = name}
    IN IF named = {} THEN NoneImpl
       ELSE <<CHOOSE r \in named : \A o \in named : o.id <= r.id>>

get_implementation_by_name(dict, interface, name) ==
    FirstNamed(get_implementations(dict, interface), name)

RECURSIVE MatchingAny(_, _)
MatchingAny(list, required) ==
    IF list = <<>> THEN <<>>
    ELSE IF \E i \in 1..Len(required) : In(required[i], Head(list).capabilities)
         THEN <<Head(list)>> \o MatchingAny(Tail(list), required)
         ELSE MatchingAny(Tail(list), required)

RECURSIVE MatchingPrepended(_, _)
MatchingPrepended(list, required) ==
    IF list = <<>> THEN <<>>
    ELSE IF HasAll(Head(list), required)
         THEN MatchingPrepended(Tail(list), required) \o <<Head(list)>>
         ELSE MatchingPrepended(Tail(list), required)

\* ImplementationRegistry.get_implementations_with_capabilities
RECURSIVE Matching(_, _)
Matching(list, required) ==
    IF list = <<>> THEN <<>>
    ELSE IF HasAll(Head(list), required)
         THEN <<Head(list)>> \o Matching(Tail(list), required)
         ELSE Matching(Tail(list), required)

get_implementations_with_capabilities(dict, interface, required) ==
    Matching(get_implementations(dict, interface), required)

\* ------------------------------------------------------------------------
\* ToolSelector
\* ------------------------------------------------------------------------

\* impl.implementation(): an instance of the record's class.  calls lists
\* the records whose factory the get_tool call has invoked, in order.
Instance(impl) ==
    [kind |-> "instance", impl |-> <<impl>>,
     msgName |-> NoneName, msgCaps |-> NoneCaps, msgInterface |-> NoneName,
     calls |-> <<impl>>]

\* NoImplementationError(f"No implementations registered for {interface}")
NoImplementationError(interface) ==
    [kind |-> "NoImplementationError", impl |-> NoneImpl,
     msgName |-> NoneName, msgCaps |-> NoneCaps, msgInterface |-> interface,
     calls |-> <<>>]

\* NoCapableImplementationError; the message formats the required
\* capabilities and, on the preferred-name path, the preferred name.
NoCapableImplementationError(name, required) ==
    [kind |-> "NoCapableImplementationError", impl |-> NoneImpl,
     msgName |-> name, msgCaps |-> required, msgInterface |-> NoneName,
     calls |-> <<>>]

NormalSelectionLowest(dict, interface, required) ==
    LET impls == get_implementations(dict, interface)
        capable == get_implementations_with_capabilities(dict, interface,
                                                         required.caps)
    IN IF impls = <<>> THEN NoImplementationError(interface)
       ELSE IF TruthyCaps(required)
            THEN IF capable = <<>>
                 THEN NoCapableImplementationError(NoneName, required)
                 ELSE Instance(capable[Len(capable)])
            ELSE Instance(impls[Len(impls)])

NormalSelectionFilterFirst(dict, interface, required) ==
    LET impls == get_implementations(dict, interface)
        capable == get_implementations_with_capabilities(dict, interface,
                                                         required.caps)
    IN IF TruthyCaps(required) /\ capable = <<>>
       THEN NoCapableImplementationError(NoneName, required)
       ELSE IF impls = <<>> THEN NoImplementationError(interface)
            ELSE IF TruthyCaps(required) THEN Instance(capable[1])
                 ELSE Instance(impls[1])

NormalSelectionBestEffort(dict, interface, required) ==
    LET impls == get_implementations(dict, interface)
        capable == get_implementations_with_capabilities(dict, interface,
                                                         required.caps)
    IN IF impls = <<>> THEN NoImplementationError(interface)
       ELSE IF TruthyCaps(required) /\ capable # <<>>
            THEN Instance(capable[1])
            ELSE Instance(impls[1])

\* ToolSelector.get_tool, from `implementations = ...` on.
NormalSelection(dict, interface, required) ==
    LET impls == get_implementations(dict, interface)
        capable == get_implementations_with_capabilities(dict, interface,
                                                         required.caps)
    IN IF impls = <<>> THEN NoImplementationError(interface)
       ELSE IF TruthyCaps(required)
            THEN IF capable = <<>>
                 THEN NoCapableImplementationError(NoneName, required)
                 ELSE Instance(capable[1])
            ELSE Instance(impls[1])

GetToolFallBack(dict, interface, required, preferred) ==
    LET found == get_implementation_by_name(dict, interface, preferred)
    IN IF TruthyName(preferred) /\ found # NoneImpl
          /\ ~(TruthyCaps(required) /\ ~HasAll(found[1], required.caps))
       THEN Instance(found[1])
       ELSE NormalSelection(dict, interface, required)

GetToolStrictName(dict, interface, required, preferred) ==
    LET found == get_implementation_by_name(dict, interface, preferred)
    IN IF TruthyName(preferred)
       THEN IF found = NoneImpl THEN NoImplementationError(interface)
            ELSE IF TruthyCaps(required) /\ ~HasAll(found[1], required.caps)
                 THEN NoCapableImplementationError(preferred, required)
                 ELSE Instance(found[1])
       ELSE NormalSelection(dict, interface, required)

GetToolIgnoringName(dict, interface, required, preferred) ==
    NormalSelection(dict, interface, required)

GetToolRejectingEmpty(dict, interface, required, preferred) ==
    LET found == get_implementation_by_name(dict, interface, preferred)
    IN IF required.given /\ Len(required.caps) = 0
       THEN NoCapableImplementationError(preferred, required)
       ELSE IF TruthyName(preferred) /\ found # NoneImpl
            THEN IF TruthyCaps(required) /\ ~HasAll(found[1], required.caps)
                 THEN NoCapableImplementationError(preferred, required)
                 ELSE Instance(found[1])
            ELSE NormalSelection(dict, interface, required)

\* A get_tool that instantiates the preferred implementation as soon as it
\* is found, and checks its capabilities afterwards.
GetToolInstantiatingFirst(dict, interface, required, preferred) ==
    LET found == get_implementation_by_name(dict, interface, preferred)
    IN IF TruthyName(preferred) /\ found # NoneImpl
       THEN IF TruthyCaps(required) /\ ~HasAll(found[1], required.caps)
            THEN [NoCapableImplementationError(preferred, required)
                      EXCEPT !.calls = <<found[1]>>]
            ELSE Instance(found[1])
       ELSE NormalSelection(dict, interface, required)

\* ToolSelector.get_tool
GetTool(dict, interface, required, preferred) ==
    LET found == get_implementation_by_name(dict, interface, preferred)
    IN IF TruthyName(preferred) /\ found # NoneImpl
       THEN IF TruthyCaps(required) /\ ~HasAll(found[1], required.caps)
            THEN NoCapableImplementationError(preferred, required)
            ELSE Instance(found[1])
       ELSE NormalSelection(dict, interface, required)

RECURSIVE UniqueNames(_)
UniqueNames(list) ==
    IF list = <<>> THEN <<>>
    ELSE LET rest == UniqueNames(SubSeq(list, 1, Len(list) - 1))
             n == list[Len(list)].name
         IN IF \E i \in 1..Len(rest) : rest[i] = n THEN rest
            ELSE Append(rest, n)

list_available_tools_unique(dict, interface) ==
    UniqueNames(get_implementations(dict, interface))

\* ToolSelector.list_available_tools
list_available_tools(dict, interface) ==
    LET impls == get_implementations(dict, interface)
    IN [i \in 1..Len(impls) |-> impls[i].name]

get_tool_capabilities_merged(dict, interface, tool_name) ==
    LET impls == get_implementations(dict, interface)
        Named(r) == r.name = tool_name
        named == SelectSeq(impls, Named)
    IN IF named = <<>> THEN <<>> ELSE named[Len(named)].capabilities

\* ToolSelector.get_tool_capabilities
get_tool_capabilities(dict, interface, tool_name) ==
    LET impl == get_implementation_by_name(dict, interface, tool_name)
    IN IF impl # NoneImpl THEN impl[1].capabilities ELSE <<>>

\* ------------------------------------------------------------------------
\* Configuration (nexus/core/config.py)
\* ------------------------------------------------------------------------

\* A configuration value is tagged with what isinstance(value, dict)
\* answers: a scalar carries a string, a mapping carries a function from
\* its keys to values.
Scalar(s) == [dict |-> FALSE, val |-> s]

Mapping(f) == [dict |-> TRUE, val |-> f]

\* Python's None as a value (YAML null).
NoneValue == Scalar("<None>")

\* {}
EmptyDict == [k \in {} |-> NoneValue]

\* str.lower() on one character.
UpperCase == <<"A", "B", "C", "D", "E", "F", "G", "H", "I", "J", "K", "L", "M",
               "N", "O", "P", "Q", "R", "S", "T", "U", "V", "W", "X", "Y", "Z">>

LowerCase == <<"a", "b", "c", "d", "e", "f", "g", "h", "i", "j", "k", "l", "m",
               "n", "o", "p", "q", "r", "s", "t", "u", "v", "w", "x", "y", "z">>

LowerChar(c) ==
    IF \E i \in 1..Len(UpperCase) : UpperCase[i] = c
    THEN LowerCase[CHOOSE i \in 1..Len(UpperCase) : UpperCase[i] = c]
    ELSE c

\* str.lower() on a string, a sequence of characters.
Lower(str) == [i \in 1..Len(str) |-> LowerChar(str[i])]

Whitespace == {" ", "\n", "\t"}

\* str.strip()
RECURSIVE Strip(_)
Strip(str) ==
    IF str = <<>> THEN <<>>
    ELSE IF Head(str) \in Whitespace THEN Strip(Tail(str))
    ELSE IF str[Len(str)] \in Whitespace
         THEN Strip(SubSeq(str, 1, Len(str) - 1))
         ELSE str

\* `needle in str`
Contains(needle, str) ==
    \E i \in 1..(Len(str) - Len(needle) + 1) :
        SubSeq(str, i, i + Len(needle) - 1) = needle

GitLabWord == <<"g", "i", "t", "l", "a", "b">>

GitHubWord == <<"g", "i", "t", "h", "u", "b">>

\* What `git remote get-url origin` prints in the modelled environments.
RemoteUrls ==
    {<<"g", "i", "t", "l", "a", "b", ".", "c", "o", "m", "\n">>,
     <<"G", "i", "t", "H", "u", "b", ".", "c", "o", "m", "\n">>,
     <<"g", "i", "t", "h", "u", "b", ".", "c", "o", "m", "/", "G", "i", "t", "L", "a", "b">>,
     <<"e", "x", "a", "m", "p", "l", "e", ".", "o", "r", "g", "\n">>,
     <<>>,
     <<" ", "g", "i", "t", ".", "h", "u", "b", "\n">>}

\* What subprocess.run does: it completes with an exit status and an
\* output, or raises.
GitOutcomes ==
    {[kind |-> "completed", returncode |-> rc, stdout |-> url] :
         rc \in {0, 128}, url \in RemoteUrls}
    \cup {[kind |-> k, returncode |-> 0, stdout |-> <<>>] :
              k \in {"FileNotFoundError", "SubprocessError"}}

\* {"toolkit": {"code_host": {"type": t}}}
DetectedConfig(t) ==
    [toolkit |-> Mapping([code_host |-> Mapping([type |-> Scalar(t)])])]

DetectGitHubFirst(git) ==
    IF git.kind = "completed" /\ git.returncode = 0
    THEN LET remote_url == Lower(Strip(git.stdout))
         IN IF Contains(GitHubWord, remote_url) THEN DetectedConfig("github")
            ELSE IF Contains(GitLabWord, remote_url)
                 THEN DetectedConfig("gitlab")
                 ELSE DetectedConfig("unknown")
    ELSE DetectedConfig("unknown")

\* Configuration._auto_detect_repo
AutoDetectRepo(git) ==
    IF git.kind = "completed" /\ git.returncode = 0
    THEN LET remote_url == Lower(Strip(git.stdout))
         IN IF Contains(GitLabWord, remote_url) THEN DetectedConfig("gitlab")
            ELSE IF Contains(GitHubWord, remote_url)
                 THEN DetectedConfig("github")
                 ELSE DetectedConfig("unknown")
    ELSE DetectedConfig("unknown")

\* dict.update: the override's value replaces the base's at every key.
ShallowMerge(base, override) ==
    [k \in DOMAIN base \cup DOMAIN override |->
         IF k \in DOMAIN override THEN override[k] ELSE base[k]]

\* Configuration._deep_merge
RECURSIVE DeepMerge(_, _)
DeepMerge(base, override) ==
    [k \in DOMAIN base \cup DOMAIN override |->
         IF k \in DOMAIN override
         THEN IF k \in DOMAIN base /\ base[k].dict /\ override[k].dict
              THEN Mapping(DeepMerge(base[k].val, override[k].val))
              ELSE override[k]
         ELSE base[k]]

\* A toolkit.yaml: absent, unreadable (IOError or YAMLError), or parsed
\* by yaml.safe_load into a mapping.
AbsentFile == [exists |-> FALSE, readable |-> FALSE, content |-> EmptyDict]

UnreadableFile == [exists |-> TRUE, readable |-> FALSE, content |-> EmptyDict]

ParsedFile(content) ==
    [exists |-> TRUE, readable |-> TRUE, content |-> content]

\* Contents of <search_path>/.claude/toolkit.yaml.
FileConfigs ==
    {EmptyDict,
     [toolkit |-> Mapping([code_host |-> Mapping([type |-> Scalar("github")])])],
     [toolkit |-> Mapping([code_host |-> Mapping([prefer |-> Scalar("api")])])],
     [toolkit |-> Mapping([code_host |-> Mapping([type |-> NoneValue])])],
     [toolkit |-> Mapping([code_host |-> Scalar("gitlab")])],
     [toolkit |-> NoneValue],
     [debug |-> Scalar("api")]}

ProjectFiles ==
    {AbsentFile, UnreadableFile} \cup {ParsedFile(c) : c \in FileConfigs}

\* Contents of ~/.claude/toolkit.yaml.
HomeFiles ==
    {AbsentFile,
     ParsedFile([toolkit |-> Mapping([custom |-> Scalar("api")])])}

\* Configuration._find_config_file: the first candidate that exists.
FindConfigFile(env) ==
    IF env.project.exists THEN env.project
    ELSE IF env.home.exists THEN env.home
    ELSE AbsentFile

\* Configuration._load_configuration
LoadConfiguration(env) ==
    LET auto_config == AutoDetectRepo(env.git)
        file == FindConfigFile(env)
    IN IF file.exists
       THEN IF file.readable THEN DeepMerge(auto_config, file.content)
            ELSE auto_config
       ELSE auto_config

\* key.split('.'), for a key given as a sequence of tokens, each a name or
\* the separator "."; two names never stand side by side.
RECURSIVE SplitFrom(_, _)
SplitFrom(key, segment) ==
    IF key = <<>> THEN <<segment>>
    ELSE IF Head(key) = "." THEN <<segment>> \o SplitFrom(Tail(key), "")
    ELSE SplitFrom(Tail(key), Head(key))

Split(key) == SplitFrom(key, "")

\* The loop of Configuration.get; value.get(k) is None for a missing key
\* and for a key that holds None.
RECURSIVE Walk(_, _, _)
Walk(value, keys, default) ==
    IF keys = <<>> THEN value
    ELSE IF value.dict
         THEN IF Head(keys) \notin DOMAIN value.val
                 \/ value.val[Head(keys)] = NoneValue
              THEN default
              ELSE Walk(value.val[Head(keys)], Tail(keys), default)
         ELSE default

\* Configuration.get
Get(cfg, key, default) == Walk(Mapping(cfg), Split(key), default)

\* Keys handed to get.
GetKeys ==
    {<<"toolkit">>,
     <<"toolkit", ".", "code_host">>,
     <<"toolkit", ".", "code_host", ".", "type">>,
     <<"toolkit", ".", "code_host", ".", "type", ".", "name">>,
     <<"toolkit", ".", "custom">>,
     <<"toolkit", ".">>,
     <<"nonexistent", ".", "key">>,
     <<>>}

\* Defaults handed to get: omitted (None) or a value.
GetDefaults == {NoneValue, Scalar("default")}

\* Arguments of a direct _deep_merge call: mappings over two keys nested
\* up to two levels.
MergeKeys == {"a", "b"}

MergeLeaves == {Scalar("x"), Scalar("y")}

MergeInner == UNION {[D -> MergeLeaves] : D \in SUBSET MergeKeys}

MergeDicts ==
    UNION {[D -> MergeLeaves \cup {Mapping(d) : d \in MergeInner}] :
               D \in SUBSET MergeKeys}

\* ------------------------------------------------------------------------
\* Actions: one per public method
\* ------------------------------------------------------------------------

Call(op, interface, required, name, result) ==
    [op |-> op, interface |-> interface, required |-> required,
     name |-> name, result |-> result]

NoResult == <<>>

\* The call record of a Configuration method.
CfgCall(op, key, default, result) ==
    [op |-> op, key |-> key, default |-> default, result |-> result]

\* ImplementationRegistry.__init__
NewRegistry ==
    /\ implementations = <<>>
    /\ regCount = 0
    /\ last = Call("__init__", NoneName, NoneCaps, NoneName, NoResult)
    /\ history = <<>>

\* No Configuration has been constructed and _deep_merge is not called.
NoEnvironment ==
    [git |-> [kind |-> "FileNotFoundError", returncode |-> 0, stdout |-> <<>>],
     project |-> AbsentFile, home |-> AbsentFile]

NoMergeArgs == [base |-> EmptyDict, override |-> EmptyDict]

NoConfiguration ==
    /\ environment = NoEnvironment
    /\ config = EmptyDict
    /\ cfgLast = CfgCall("none", <<>>, NoneValue, NoneValue)

Init ==
    /\ NewRegistry
    /\ NoConfiguration
    /\ mergeArgs = NoMergeArgs

\* The call record of register, which also has a priority argument.
RegisterCall(interface, capabilities, priority, name, impl) ==
    [op |-> "register", interface |-> interface,
     required |-> Given(capabilities), name |-> name, result |-> <<impl>>,
     priority |-> priority]

\* ImplementationRegistry.register with the priority argument drawn from
\* priorityArgs.
RegisterWith(priorityArgs) ==
    /\ regCount < MaxRegs
    /\ \E interface \in Interfaces, implementation \in Classes,
          capabilities \in CapabilityLists, priority \in priorityArgs,
          name \in RegisterNames :
           LET impl == Implementation(interface, implementation, capabilities,
                                      PriorityOf(priority), name, regCount + 1)
           IN /\ implementations' = Registered(implementations, impl)
              /\ last' = RegisterCall(interface, capabilities, priority, name,
                                      impl)
              /\ history' = Append(history, impl)
    /\ regCount' = regCount + 1
    /\ UNCHANGED cfgVars

register == RegisterWith(PriorityArgs)

\* register with a third priority, so that three records of one interface
\* can have pairwise distinct priorities.
register_any_priority == RegisterWith(MorePriorityArgs)

\* A clear that empties every bucket but keeps the keys.
clear_buckets_only ==
    /\ implementations' =
           [i \in 1..Len(implementations) |->
                [key |-> implementations[i].key, value |-> <<>>]]
    /\ last' = Call("clear", NoneName, NoneCaps, NoneName, NoResult)
    /\ history' = <<>>
    /\ UNCHANGED regCount
    /\ UNCHANGED cfgVars

\* A clear that drops only the most recently created key (dict.popitem).
clear_popitem ==
    /\ implementations' =
           IF implementations = <<>> THEN <<>>
           ELSE SubSeq(implementations, 1, Len(implementations) - 1)
    /\ last' = Call("clear", NoneName, NoneCaps, NoneName, NoResult)
    /\ history' = <<>>
    /\ UNCHANGED regCount
    /\ UNCHANGED cfgVars

clear ==
    /\ implementations' = <<>>
    /\ last' = Call("clear", NoneName, NoneCaps, NoneName, NoResult)
    /\ history' = <<>>
    /\ UNCHANGED regCount
    /\ UNCHANGED cfgVars

\* A get_implementations on a dict that creates missing keys.
get_implementations_call_setdefault ==
    \E interface \in Interfaces :
        /\ implementations' =
               IF HasKey(implementations, interface) THEN implementations
               ELSE Append(implementations,
                           [key |-> interface, value |-> <<>>])
        /\ last' = Call("get_implementations", interface, NoneCaps, NoneName,
                        get_implementations(implementations, interface))
        /\ UNCHANGED <<regCount, history>>
        /\ UNCHANGED cfgVars

get_implementations_call ==
    /\ \E interface \in Interfaces :
           last' = Call("get_implementations", interface, NoneCaps, NoneName,
                        get_implementations(implementations, interface))
    /\ UNCHANGED <<implementations, regCount, history>>
    /\ UNCHANGED cfgVars

get_implementation_by_name_call ==
    /\ \E interface \in Interfaces, name \in LookupNames :
           last' = Call("get_implementation_by_name", interface, NoneCaps, name,
                        get_implementation_by_name(implementations, interface,
                                                   name))
    /\ UNCHANGED <<implementations, regCount, history>>
    /\ UNCHANGED cfgVars

get_implementations_with_capabilities_call ==
    /\ \E interface \in Interfaces, required \in RequiredLists :
           last' = Call("get_implementations_with_capabilities", interface,
                        Given(required), NoneName,
                        get_implementations_with_capabilities(
                            implementations, interface, required))
    /\ UNCHANGED <<implementations, regCount, history>>
    /\ UNCHANGED cfgVars

list_interfaces_call ==
    /\ last' = Call("list_interfaces", NoneName, NoneCaps, NoneName,
                    list_interfaces(implementations))
    /\ UNCHANGED <<implementations, regCount, history>>
    /\ UNCHANGED cfgVars

\* A get_tool that creates the key of an interface it is asked about.
get_tool_creating_key ==
    /\ \E interface \in Interfaces, required \in RequiredArgs,
          preferred \in LookupNames \cup {NoneName} :
           /\ last' = Call("get_tool", interface, required, preferred,
                           GetTool(implementations, interface, required,
                                   preferred))
           /\ implementations' =
                  IF HasKey(implementations, interface) THEN implementations
                  ELSE Append(implementations,
                              [key |-> interface, value |-> <<>>])
    /\ UNCHANGED <<regCount, history>>
    /\ UNCHANGED cfgVars

get_tool ==
    /\ \E interface \in Interfaces, required \in RequiredArgs,
          preferred \in LookupNames \cup {NoneName} :
           last' = Call("get_tool", interface, required, preferred,
                        GetTool(implementations, interface, required,
                                preferred))
    /\ UNCHANGED <<implementations, regCount, history>>
    /\ UNCHANGED cfgVars

list_available_tools_call ==
    /\ \E interface \in Interfaces :
           last' = Call("list_available_tools", interface, NoneCaps, NoneName,
                        list_available_tools(implementations, interface))
    /\ UNCHANGED <<implementations, regCount, history>>
    /\ UNCHANGED cfgVars

get_tool_capabilities_call ==
    /\ \E interface \in Interfaces, tool_name \in LookupNames :
           last' = Call("get_tool_capabilities", interface, NoneCaps,
                        tool_name,
                        get_tool_capabilities(implementations, interface,
                                              tool_name))
    /\ UNCHANGED <<implementations, regCount, history>>
    /\ UNCHANGED cfgVars

Next ==
    \/ register
    \/ clear
    \/ get_implementations_call
    \/ get_implementation_by_name_call
    \/ get_implementations_with_capabilities_call
    \/ list_interfaces_call
    \/ get_tool
    \/ list_available_tools_call
    \/ get_tool_capabilities_call

Spec == Init /\ [][Next]_vars

\* ------------------------------------------------------------------------
\* The registry under its two mutators alone
\* ------------------------------------------------------------------------

\* register and clear are the only methods that assign to or mutate
\* _implementations, so the registry goes through the same states here as
\* under Spec, with a wider choice of priorities.
NextRegister ==
    \/ register_any_priority
    \/ clear

SpecRegister == Init /\ [][NextRegister]_vars

\* ------------------------------------------------------------------------
\* Configuration: construction, then get, get_all and _auto_detect_repo
\* ------------------------------------------------------------------------

\* Configuration.__init__ in every modelled environment.
InitConfig ==
    /\ NewRegistry
    /\ environment \in [git : GitOutcomes, project : ProjectFiles,
                         home : HomeFiles]
    /\ config = LoadConfiguration(environment)
    /\ mergeArgs = NoMergeArgs
    /\ cfgLast = CfgCall("__init__", <<>>, NoneValue, NoneValue)

get_call ==
    /\ \E key \in GetKeys, default \in GetDefaults :
           cfgLast' = CfgCall("get", key, default, Get(config, key, default))
    /\ UNCHANGED <<environment, config, mergeArgs>>
    /\ UNCHANGED regVars

get_all_call ==
    /\ cfgLast' = CfgCall("get_all", <<>>, NoneValue, Mapping(config))
    /\ UNCHANGED <<environment, config, mergeArgs>>
    /\ UNCHANGED regVars

auto_detect_repo_call ==
    /\ cfgLast' = CfgCall("_auto_detect_repo", <<>>, NoneValue,
                          Mapping(AutoDetectRepo(environment.git)))
    /\ UNCHANGED <<environment, config, mergeArgs>>
    /\ UNCHANGED regVars

NextConfig ==
    \/ get_call
    \/ get_all_call
    \/ auto_detect_repo_call

SpecConfig == InitConfig /\ [][NextConfig]_vars

\* ------------------------------------------------------------------------
\* Configuration._deep_merge called on arbitrary mappings
\* ------------------------------------------------------------------------

InitMerge ==
    /\ NewRegistry
    /\ NoConfiguration
    /\ mergeArgs \in [base : MergeDicts, override : MergeDicts]

deep_merge_call ==
    /\ cfgLast' = CfgCall("_deep_merge", <<>>, NoneValue,
                          Mapping(DeepMerge(mergeArgs.base,
                                            mergeArgs.override)))
    /\ UNCHANGED <<environment, config, mergeArgs>>
    /\ UNCHANGED regVars

NextMerge == deep_merge_call

SpecMerge == InitMerge /\ [][NextMerge]_vars

\* ------------------------------------------------------------------------
\* Properties
\* ------------------------------------------------------------------------

\* The bucket get_implementations returns for an interface.
Bucket(interface) == get_implementations(implementations, interface)

Records(list) == {list[i] : i \in 1..Len(list)}

\* r has the maximum priority in set and, among those with that priority,
\* was registered earliest.
IsBest(r, set) ==
    /\ r \in set
    /\ \A o \in set :
           \/ o.priority < r.priority
           \/ o.priority = r.priority /\ o.id >= r.id

Capable(interface, caps) ==
    {r \in Records(Bucket(interface)) : HasAll(r, caps)}

LastFound == get_implementation_by_name(implementations, last.interface,
                                        last.name)

\* C1: after any sequence of register calls every bucket is sorted by
\* non-increasing priority, and records of equal priority stand in the
\* order in which they were registered.
C1_SortedStable ==
    \A interface \in Interfaces :
        LET b == Bucket(interface)
        IN \A i, j \in 1..Len(b) :
               i < j => \/ b[i].priority > b[j].priority
                        \/ b[i].priority = b[j].priority /\ b[i].id < b[j].id

\* A register call whose record the sort moved in front of an older one.
C1_Witness ==
    /\ last.op = "register"
    /\ LET b == Bucket(last.interface)
       IN Len(b) >= 2 /\ b[1].id = regCount /\ b[1].priority > b[2].priority

\* C2: with no required capabilities and no preferred name, get_tool on a
\* non-empty bucket instantiates the record of maximum priority, the
\* earliest registered among those sharing it.
C2_HighestPriority ==
    (/\ last.op = "get_tool"
     /\ last.required = NoneCaps
     /\ last.name = NoneName
     /\ Bucket(last.interface) # <<>>)
    => /\ last.result.kind = "instance"
       /\ IsBest(last.result.impl[1], Records(Bucket(last.interface)))

\* get_tool(I) chose between two records of equal priority.
C2_Witness ==
    /\ last.op = "get_tool"
    /\ last.required = NoneCaps
    /\ last.name = NoneName
    /\ LET b == Bucket(last.interface)
       IN /\ Len(b) >= 2
          /\ b[1].priority = b[2].priority
          /\ last.result.kind = "instance"
          /\ last.result.impl[1] = b[1]

\* C3: with a non-empty required list and no preferred name, get_tool
\* instantiates the best record among those holding every required
\* capability, and every record ranked before it lacks one.
C3_BestCapable ==
    (/\ last.op = "get_tool"
     /\ TruthyCaps(last.required)
     /\ last.name = NoneName
     /\ Capable(last.interface, last.required.caps) # {})
    => /\ last.result.kind = "instance"
       /\ IsBest(last.result.impl[1],
                 Capable(last.interface, last.required.caps))
       /\ LET b == Bucket(last.interface)
          IN \A i, j \in 1..Len(b) :
                 (i < j /\ b[j] = last.result.impl[1])
                 => ~HasAll(b[i], last.required.caps)

\* get_tool(I, R) skipped a higher-priority record that lacks a capability.
C3_Witness ==
    /\ last.op = "get_tool"
    /\ TruthyCaps(last.required)
    /\ last.name = NoneName
    /\ last.result.kind = "instance"
    /\ LET b == Bucket(last.interface)
       IN /\ Len(b) >= 2
          /\ b[2] = last.result.impl[1]
          /\ b[1].priority > b[2].priority

\* C4: a preferred name that resolves to a record lacking a required
\* capability makes get_tool raise NoCapableImplementationError naming the
\* preferred name and the required capabilities; there is no fallback.
C4_PreferredLacksCapability ==
    (/\ last.op = "get_tool"
     /\ TruthyName(last.name)
     /\ LastFound # NoneImpl
     /\ last.required.given
     /\ ~HasAll(LastFound[1], last.required.caps))
    => /\ last.result.kind = "NoCapableImplementationError"
       /\ last.result.msgName = last.name
       /\ last.result.msgCaps = last.required
       /\ last.result.impl = NoneImpl

\* The preferred record lacks a capability that another record holds.
C4_Witness ==
    /\ last.op = "get_tool"
    /\ TruthyName(last.name)
    /\ LastFound # NoneImpl
    /\ last.required.given
    /\ ~HasAll(LastFound[1], last.required.caps)
    /\ Capable(last.interface, last.required.caps) # {}
    /\ last.result.kind = "NoCapableImplementationError"

\* C5: a preferred name not registered for the interface gives the
\* outcome of the same call without a preferred name.
C5_UnknownNameFallsBack ==
    (/\ last.op = "get_tool"
     /\ last.name # NoneName
     /\ \A r \in Records(Bucket(last.interface)) : r.name # last.name)
    => last.result = GetTool(implementations, last.interface, last.required,
                             NoneName)

\* An unknown preferred name on a non-empty bucket returned an instance.
C5_Witness ==
    /\ last.op = "get_tool"
    /\ last.name = "nonexistent"
    /\ Len(Bucket(last.interface)) >= 2
    /\ last.result.kind = "instance"
    /\ last.result.impl[1] = Bucket(last.interface)[1]

\* C6: get_tool on an interface with no implementations raises
\* NoImplementationError naming the interface, whatever else is passed.
C6_NoImplementation ==
    (last.op = "get_tool" /\ Bucket(last.interface) = <<>>)
    => /\ last.result.kind = "NoImplementationError"
       /\ last.result.msgInterface = last.interface

\* get_tool with a capability requirement and a preferred name on a
\* registry that was filled and then cleared.
C6_Witness ==
    /\ last.op = "get_tool"
    /\ regCount > 0
    /\ implementations = <<>>
    /\ TruthyCaps(last.required)
    /\ TruthyName(last.name)
    /\ last.result.kind = "NoImplementationError"

\* C7: when implementations exist, no preferred name resolves and none
\* covers a non-empty required list, get_tool raises
\* NoCapableImplementationError listing the required capabilities; and an
\* instance get_tool returns never lacks a required capability.
C7_NoCapable ==
    /\ (/\ last.op = "get_tool"
        /\ Bucket(last.interface) # <<>>
        /\ (TruthyName(last.name) => LastFound = NoneImpl)
        /\ TruthyCaps(last.required)
        /\ Capable(last.interface, last.required.caps) = {})
       => /\ last.result.kind = "NoCapableImplementationError"
          /\ last.result.msgCaps = last.required
    /\ (last.op = "get_tool" /\ last.result.kind = "instance")
       => HasAll(last.result.impl[1], last.required.caps)

\* Two records are registered and neither covers the requirement.
C7_Witness ==
    /\ last.op = "get_tool"
    /\ Len(Bucket(last.interface)) >= 2
    /\ TruthyCaps(last.required)
    /\ Capable(last.interface, last.required.caps) = {}
    /\ last.result.kind = "NoCapableImplementationError"

\* C8: a preferred name that resolves to a record covering the required
\* capabilities (or none required) is the record get_tool instantiates,
\* also when a record of higher priority qualifies.
C8_PreferredWins ==
    (/\ last.op = "get_tool"
     /\ TruthyName(last.name)
     /\ LastFound # NoneImpl
     /\ (TruthyCaps(last.required)
         => HasAll(LastFound[1], last.required.caps)))
    => last.result = Instance(LastFound[1])

\* The preferred record was returned although the first record of the
\* bucket has a strictly higher priority and covers the requirement.
C8_Witness ==
    /\ last.op = "get_tool"
    /\ TruthyName(last.name)
    /\ TruthyCaps(last.required)
    /\ last.result.kind = "instance"
    /\ LET b == Bucket(last.interface)
       IN /\ Len(b) >= 2
          /\ last.result.impl[1] = b[2]
          /\ b[1].priority > b[2].priority
          /\ HasAll(b[1], last.required.caps)

\* C9: get_implementations_with_capabilities(I, R) is the subsequence of
\* get_implementations(I) of the records holding every element of R, in
\* the same order; it is empty when no record holds some element of R.
C9_FilteredSubsequence ==
    last.op = "get_implementations_with_capabilities"
    => LET b == Bucket(last.interface)
           R == last.required.caps
           Covers(r) == \A i \in 1..Len(R) : In(R[i], r.capabilities)
       IN /\ last.result = SelectSeq(b, Covers)
          /\ (\E i \in 1..Len(R) :
                  \A r \in Records(b) : ~In(R[i], r.capabilities))
             => last.result = <<>>

\* The filter kept both records of a bucket whose priorities differ.
C9_Witness ==
    /\ last.op = "get_implementations_with_capabilities"
    /\ Len(last.required.caps) > 0
    /\ Len(last.result) = 2
    /\ last.result[1].priority > last.result[2].priority

\* C10: get_implementation_by_name(I, n) is None when the bucket of I has
\* no record named n, and otherwise the first record named n in the
\* bucket's order.
C10_FirstByName ==
    last.op = "get_implementation_by_name"
    => LET b == Bucket(last.interface)
           named == {i \in 1..Len(b) : b[i].name = last.name}
       IN IF named = {} THEN last.result = NoneImpl
          ELSE /\ last.result # NoneImpl
               /\ \E i \in named :
                      /\ last.result[1] = b[i]
                      /\ \A j \in named : i <= j

\* Two records carry the name and the first of them was returned.
C10_Witness ==
    /\ last.op = "get_implementation_by_name"
    /\ LET b == Bucket(last.interface)
       IN /\ Len(b) >= 2
          /\ b[1].name = last.name
          /\ b[2].name = last.name
          /\ last.result = <<b[1]>>

\* C11: after clear(), list_interfaces() is empty, get_implementations(I)
\* is empty for every interface, and get_tool on any interface raises
\* NoImplementationError.
C11_ClearEmpties ==
    last.op = "clear"
    => /\ list_interfaces(implementations) = <<>>
       /\ \A interface \in Interfaces :
              /\ get_implementations(implementations, interface) = <<>>
              /\ \A required \in RequiredArgs,
                    preferred \in LookupNames \cup {NoneName} :
                     GetTool(implementations, interface, required,
                             preferred).kind = "NoImplementationError"

\* clear() was called after every register call the bound allows.
C11_Witness ==
    /\ last.op = "clear"
    /\ regCount >= 2

C13_NamesInOrder ==
    last.op = "list_available_tools"
    => LET b == Bucket(last.interface)
       IN /\ Len(last.result) = Len(b)
          /\ \A i \in 1..Len(b) : last.result[i] = b[i].name

\* The listing of a bucket that holds the same name twice.
C13_Witness ==
    /\ last.op = "list_available_tools"
    /\ Len(last.result) = 2
    /\ last.result[1] = last.result[2]

\* C14: get_tool_capabilities(I, n) is empty when no record of I is named
\* n, and otherwise the capabilities of the record
\* get_implementation_by_name(I, n) returns.
C14_CapabilitiesByName ==
    last.op = "get_tool_capabilities"
    => IF \A r \in Records(Bucket(last.interface)) : r.name # last.name
       THEN last.result = <<>>
       ELSE last.result = LastFound[1].capabilities

\* Two records carry the name with different capabilities, and the
\* capabilities of the first were returned.
C14_Witness ==
    /\ last.op = "get_tool_capabilities"
    /\ LET b == Bucket(last.interface)
       IN /\ Len(b) = 2
          /\ b[1].name = last.name
          /\ b[2].name = last.name
          /\ b[1].capabilities # b[2].capabilities
          /\ last.result = b[1].capabilities

\* C18: get_tool with an empty required_capabilities list has the outcome
\* of the same call with required_capabilities omitted.
C18_EmptyIsNone ==
    (last.op = "get_tool" /\ last.required = Given(<<>>))
    => last.result = GetTool(implementations, last.interface, NoneCaps,
                             last.name)

\* With an empty list, the preferred record was returned although it is
\* not the first of its bucket.
C18_Witness ==
    /\ last.op = "get_tool"
    /\ last.required = Given(<<>>)
    /\ TruthyName(last.name)
    /\ last.result.kind = "instance"
    /\ Len(Bucket(last.interface)) = 2
    /\ last.result.impl[1] = Bucket(last.interface)[2]

\* The records of an interface that carry a name.
Named(interface, name) ==
    {r \in Records(Bucket(interface)) : r.name = name}

\* A record that name lookup does not return although it carries the name.
Hidden(r) ==
    get_implementation_by_name(implementations, r.interface, r.name) # <<r>>

\* C19: among records of one interface sharing a name, the name-based
\* operations resolve to the one of highest priority, the earliest
\* registered on ties; a newly registered record takes the name over only
\* with a strictly higher priority; a hidden record is still what
\* capability selection returns when only hidden records are capable.
C19_DuplicateNames ==
    /\ (/\ last.op \in {"get_implementation_by_name", "get_tool",
                        "get_tool_capabilities"}
        /\ Cardinality(Named(last.interface, last.name)) >= 2)
       => LET named == Named(last.interface, last.name)
              best == CHOOSE r \in named : IsBest(r, named)
          IN CASE last.op = "get_implementation_by_name" ->
                      last.result = <<best>>
               [] last.op = "get_tool_capabilities" ->
                      last.result = best.capabilities
               [] last.op = "get_tool" ->
                      IF TruthyCaps(last.required)
                         /\ ~HasAll(best, last.required.caps)
                      THEN last.result.kind = "NoCapableImplementationError"
                      ELSE last.result = Instance(best)
    /\ (/\ last.op = "register"
        /\ Cardinality(Named(last.interface, last.result[1].name)) >= 2)
       => LET r == last.result[1]
              others == Named(last.interface, r.name) \ {r}
          IN /\ r \in Records(Bucket(last.interface))
             /\ ~Hidden(r) <=> \A o \in others : r.priority > o.priority
    /\ (/\ last.op = "get_tool"
        /\ last.name = NoneName
        /\ TruthyCaps(last.required)
        /\ Capable(last.interface, last.required.caps) # {}
        /\ \A r \in Capable(last.interface, last.required.caps) : Hidden(r))
       => /\ last.result.kind = "instance"
          /\ Hidden(last.result.impl[1])

\* Capability selection returned a record whose name resolves to another
\* record.
C19_Witness ==
    /\ last.op = "get_tool"
    /\ last.name = NoneName
    /\ TruthyCaps(last.required)
    /\ last.result.kind = "instance"
    /\ Hidden(last.result.impl[1])

\* The smallest id in a non-empty bucket: its first registration.
FirstId(list) ==
    CHOOSE n \in {list[i].id : i \in 1..Len(list)} :
        \A i \in 1..Len(list) : n <= list[i].id

\* C20: list_interfaces() holds exactly the interfaces registered since
\* the last clear, each once, in order of first registration; reading an
\* interface that is not registered returns nothing and adds no key.
C20_InterfaceKeys ==
    LET keys == list_interfaces(implementations)
    IN /\ \A i, j \in 1..Len(keys) : i # j => keys[i] # keys[j]
       /\ \A i \in 1..Len(keys) : keys[i] \in Interfaces
       /\ \A interface \in Interfaces :
              In(interface, keys) <=> Bucket(interface) # <<>>
       /\ \A i, j \in 1..Len(keys) :
              i < j => FirstId(Bucket(keys[i])) < FirstId(Bucket(keys[j]))
       /\ (/\ last.op \in {"get_implementations",
                           "get_implementation_by_name",
                           "get_implementations_with_capabilities"}
           /\ Bucket(last.interface) = <<>>)
          => last.result = <<>> /\ ~In(last.interface, keys)

\* A read of an interface without registrations while another interface
\* is registered.
C20_Witness ==
    /\ last.op = "get_implementations"
    /\ last.result = <<>>
    /\ Len(list_interfaces(implementations)) = 1
    /\ list_interfaces(implementations)[1] # last.interface

\* The answer of a path lookup that leaves the mapping.
Missing == Scalar("<Missing>")

\* The value a nested mapping stores at a path of keys, Missing when a key
\* of the path is absent or a non-mapping is reached before the path ends.
RECURSIVE At(_, _)
At(value, path) ==
    IF path = <<>> THEN value
    ELSE IF value.dict /\ Head(path) \in DOMAIN value.val
         THEN At(value.val[Head(path)], Tail(path))
         ELSE Missing

\* Paths of keys into the arguments of _deep_merge.
MergePaths == UNION {[1..n -> MergeKeys] : n \in 0..2}

\* C15: at every key of every level that the merge reaches, the result
\* of _deep_merge(base, override) holds the base value when only base has
\* the key, a mapping (merged in turn) when both hold mappings, and the
\* override value otherwise.
C15_DeepMerge ==
    cfgLast.op = "_deep_merge"
    => LET b == Mapping(mergeArgs.base)
           o == Mapping(mergeArgs.override)
           r == cfgLast.result
           \* the merge descends to q when both sides hold mappings at
           \* every prefix of q
           Reached(q) ==
               \A n \in 0..Len(q) :
                   At(b, SubSeq(q, 1, n)).dict /\ At(o, SubSeq(q, 1, n)).dict
       IN \A q \in MergePaths, k \in MergeKeys :
              Reached(q)
              => LET inB == At(b, Append(q, k))
                     inO == At(o, Append(q, k))
                     inR == At(r, Append(q, k))
                 IN IF inO = Missing THEN inR = inB
                    ELSE IF inB.dict /\ inO.dict
                         THEN /\ inR.dict
                              /\ DOMAIN inR.val =
                                     DOMAIN inB.val \cup DOMAIN inO.val
                         ELSE inR = inO

\* One merge in which a nested mapping kept a key only base has and took
\* the override's value at a key both have.
C15_Witness ==
    /\ cfgLast.op = "_deep_merge"
    /\ \E k, i, j \in MergeKeys :
           LET b == mergeArgs.base
               o == mergeArgs.override
               r == cfgLast.result.val
           IN /\ k \in DOMAIN b /\ k \in DOMAIN o
              /\ b[k].dict /\ o[k].dict
              /\ i \in DOMAIN b[k].val \ DOMAIN o[k].val
              /\ j \in DOMAIN b[k].val \cap DOMAIN o[k].val
              /\ b[k].val[j] # o[k].val[j]
              /\ r[k].val[i] = b[k].val[i]
              /\ r[k].val[j] = o[k].val[j]

\* C16: get(key, default) returns the value stored at the dot-separated
\* path when every segment is a key of the mapping reached so far, and
\* the default when a segment is not found or a non-mapping is reached
\* before the path ends.
C16_GetReturnsStored ==
    cfgLast.op = "get"
    => LET stored == At(Mapping(config), Split(cfgLast.key))
       IN IF stored # Missing THEN cfgLast.result = stored
          ELSE cfgLast.result = cfgLast.default

\* The type that _auto_detect_repo put at toolkit.code_host.type.
DetectedType(result) == result.val.toolkit.val.code_host.val.type.val

C21_FactoryCalls ==
    last.op = "get_tool"
    => LET res == last.result
       IN /\ res.kind \in {"instance", "NoImplementationError",
                           "NoCapableImplementationError"}
          /\ res.kind = "instance"
             => /\ Len(res.calls) = 1
                /\ res.calls[1] \in Records(Bucket(last.interface))
                /\ res.impl = res.calls
          /\ res.kind # "instance" => res.calls = <<>>

\* get_tool found the preferred implementation, which lacks a required
\* capability, and raised without having instantiated anything.
C21_Witness ==
    /\ last.op = "get_tool"
    /\ TruthyName(last.name)
    /\ LastFound # NoneImpl
    /\ ~HasAll(LastFound[1], last.required.caps)
    /\ last.result.kind = "NoCapableImplementationError"
    /\ last.result.calls = <<>>

\* The operations of ToolSelector.
SelectorOps == {"get_tool", "list_available_tools", "get_tool_capabilities"}

\* C22: a step of get_tool, list_available_tools or get_tool_capabilities
\* leaves the registry as it was, whether it returns or raises; any step
\* that changes the registry is a register or a clear.
C22_SelectorsReadOnly ==
    [][/\ last'.op \in SelectorOps => implementations' = implementations
       /\ implementations' # implementations
          => last'.op \in {"register", "clear"}]_vars

\* get_tool raised NoImplementationError for an interface without a key
\* while another interface has records, and the registry still has no key
\* for it.
C22_Witness ==
    /\ last.op = "get_tool"
    /\ last.result.kind = "NoImplementationError"
    /\ implementations # <<>>
    /\ ~HasKey(implementations, last.interface)

\* C23: a register under interface I leaves the bucket of every other
\* interface J as it was, and with it the results of get_implementations,
\* get_implementation_by_name, get_implementations_with_capabilities and
\* get_tool on J.
C23_RegisterFrame ==
    [][regCount' # regCount
       => \A J \in Interfaces \ {last'.interface} :
            /\ get_implementations(implementations', J)
                   = get_implementations(implementations, J)
            /\ \A n \in LookupNames :
                   get_implementation_by_name(implementations', J, n)
                       = get_implementation_by_name(implementations, J, n)
            /\ \A R \in RequiredLists :
                   get_implementations_with_capabilities(implementations', J, R)
                       = get_implementations_with_capabilities(
                             implementations, J, R)
            /\ \A required \in RequiredArgs,
                  preferred \in LookupNames \cup {NoneName} :
                   GetTool(implementations', J, required, preferred)
                       = GetTool(implementations, J, required, preferred)]_vars

\* The latest register went to one interface while another interface
\* already had a record.
C23_Witness ==
    /\ last.op = "register"
    /\ \E J \in Interfaces \ {last.interface} : Bucket(J) # <<>>
    /\ Bucket(last.interface) # <<>>

\* The dict of a registry made by __init__ that then receives register
\* calls building the records of calls, in that order.
RECURSIVE Replay(_)
Replay(calls) ==
    IF calls = <<>> THEN <<>>
    ELSE Registered(Replay(SubSeq(calls, 1, Len(calls) - 1)),
                    calls[Len(calls)])

\* C24: the registry is in the state of a freshly constructed registry
\* that received the register calls made since the last clear (since
\* __init__ when there was none): same keys in the same order, same records
\* in the same order in every bucket.
C24_ClearIsFresh ==
    implementations = Replay(history)

\* One record was registered, the registry was cleared, and another record
\* was registered afterwards.
C24_Witness ==
    /\ regCount >= 2
    /\ Len(history) = 1
    /\ implementations = <<[key |-> history[1].interface, value |-> history]>>
    /\ last.op = "register"

\* The sequences that hold the elements of seq in some order.
Orderings(seq) ==
    LET n == Len(seq)
        onto == {f \in [1..n -> 1..n] : \A k \in 1..n : \E i \in 1..n : f[i] = k}
    IN {[i \in 1..n |-> seq[f[i]]] : f \in onto}

\* The records registered under an interface since the last clear, in
\* registration order.
RegisteredUnder(interface) ==
    LET Under(r) == r.interface = interface
    IN SelectSeq(history, Under)

DistinctPriorities(list) ==
    \A i, j \in 1..Len(list) : i # j => list[i].priority # list[j].priority

\* Position of a record in a list that holds it.
IndexOf(list, r) == CHOOSE i \in 1..Len(list) : list[i] = r

\* C25: registering the records of one interface in any other order gives
\* the same relative order of any two records of different priority; when
\* the priorities are pairwise distinct it gives the same bucket and the
\* same outcome of every get_tool call.
C25_OrderIndependent ==
    \A I \in Interfaces :
        \A regs \in {RegisteredUnder(I)}, b \in {Bucket(I)} :
            \A p \in Orderings(regs) :
                \A replayed \in {Replay(p)} :
                    \A other \in {get_implementations(replayed, I)} :
                        /\ Len(other) = Len(b)
                        /\ \A i, j \in 1..Len(b) :
                               (i < j /\ b[i].priority # b[j].priority)
                               => IndexOf(other, b[i]) < IndexOf(other, b[j])
                        /\ DistinctPriorities(regs)
                           => /\ other = b
                              /\ \A required \in RequiredArgs,
                                    preferred \in LookupNames \cup {NoneName} :
                                     GetTool(replayed, I, required, preferred)
                                         = GetTool(implementations, I,
                                                   required, preferred)

\* Two records of different priority were registered under one interface,
\* the lower priority first, and the bucket has the higher one in front.
C25_Witness ==
    \E I \in Interfaces :
        LET regs == RegisteredUnder(I)
        IN /\ Len(regs) = 2
           /\ regs[1].priority < regs[2].priority
           /\ Bucket(I) = <<regs[2], regs[1]>>

====
